---- MODULE Spec2Model ----
(***************************************************************************)
(* pacbundle (src/pacbundle/main.py): bundle expansion, package            *)
(* materialisation, the compare / sync / install / list commands and the   *)
(* external package manager they drive, as a state machine of one process  *)
(* run after another over one configuration and one system.                *)
(*                                                                         *)
(* Strings that the code inspects by prefix (bundle members) are sequences *)
(* of one-character strings, so that startswith and slicing are computed.  *)
(***************************************************************************)
EXTENDS Integers, Sequences, FiniteSets, TLC

VARIABLES
    config,            \* Config.bundles: bundle name -> [members, include]
    groups,            \* what `pacman -Qg` lists: group name -> packages
    returncode,        \* the exit status each bundle's include command ends with
    explicit,          \* what `pacman -Qe` lists on the live system
    installed,         \* what `pacman -Q` lists on the live system
    cmd,               \* the command line of the runs: [op, name, seeds, verbose, no_confirm]
    run,               \* number of the current process run
    prev,              \* record of the previous run (<<>> when none)
    pc,                \* position of the current run
    state,             \* the global `state` dict: verbose, dry_run, no_confirm
    is_included,       \* cached_property per bundle: <<>> or <<value>>
    include_runs,      \* per bundle, how often its include command was run
    cache,             \* lru_cache(1) of the pacman queries: explicit, installed, groups
    to_search,         \* expand_bundles: bundle_names_to_search (a stack)
    bundle_names,      \* expand_bundles: bundle_names (visited)
    all_bundle_names,  \* the value expand_bundles returned: <<>> or <<set>>
    todo,              \* bundles a loop of the handler has still to process
    all_packages,      \* packages collected so far / the desired set
    plan,              \* the handler's local sets
    executed,          \* mutating commands run on the system, in order
    reported,          \* "Running command: ..." lines printed, in order
    table,             \* list: the "Included" column of the rows added so far
    snapshot,          \* the system as the current run found it
    result,            \* how the run ended: "running", "Return", "Exit0", ...
    err_name           \* identifier named by the error message printed (<<>> if none)

vars == <<config, groups, returncode, explicit, installed, cmd, run, prev, pc, state,
          is_included, include_runs, cache, to_search, bundle_names,
          all_bundle_names, todo, all_packages, plan, executed, reported,
          table, snapshot, result, err_name>>

envVars == <<config, groups, returncode, cmd>>
sysVars == <<explicit, installed>>
histVars == <<run, prev, snapshot>>
inclVars == <<is_included, include_runs>>
expandVars == <<to_search, bundle_names, all_bundle_names>>
logVars == <<executed, reported>>
endVars == <<result, err_name>>

----------------------------------------------------------------------------
(* Bounds *)

\* longest member list of a bundle handed to expand_bundles directly
MaxMembers == 2
\* number of process runs in a behaviour
MaxRuns == 2

----------------------------------------------------------------------------
(* Values *)

None == <<>>
Some(x) == <<x>>

\* exit statuses of a shell command: success and failure
ExitCodes == {0, 1}

A == <<"a">>
B == <<"b">>
G == <<"g">>
Q == <<"q">>
D == <<"d">>

BundleNames == {A, B}
X == <<"x">>
Packages == {G, Q, X}

\* member strings a config file may hold; "#" alone is rejected by the validator
RawMembers == {<<"#", "a">>, <<"#", "b">>, G, <<"g", "#", "d">>, <<"#">>}

WordChars == {"a", "b", "d", "g", "q"}

StartsWith(s, p) == Len(s) >= Len(p) /\ SubSeq(s, 1, Len(p)) = p

\* s[n:]
Slice(s, n) == SubSeq(s, n + 1, Len(s))

\* re.match(R"^(g#|#)?[\w@.+-]+$", member)
members_are_valid_identifiers(member) ==
    LET rest == IF StartsWith(member, <<"g", "#">>) THEN Slice(member, 2)
                ELSE IF StartsWith(member, <<"#">>) THEN Slice(member, 1)
                ELSE member
    IN  Len(rest) >= 1 /\ \A i \in 1..Len(rest) : rest[i] \in WordChars

Members == {m \in RawMembers : members_are_valid_identifiers(m)}

identifier_type(identifier) ==
    IF StartsWith(identifier, <<"#">>) THEN "bundle"
    ELSE IF StartsWith(identifier, <<"g", "#">>) THEN "group"
    ELSE "package"

SeqsUpTo(S, n) == UNION {[1..k -> S] : k \in 0..n}

Perms(S) == {s \in [1..Cardinality(S) -> S] : \A x \in S : \E i \in DOMAIN s : s[i] = x}

Bundle(members, include) == [members |-> members, include |-> include]

\* configurations over the key sets {a} and {a, b}
ConfigsOver(memberLists, includes) ==
    UNION {[K -> {Bundle(m, i) : m \in memberLists, i \in includes}] : K \in {{A}, {A, B}}}

NoGroups == <<>>
GroupsD == [x \in {D} |-> {Q}]

\* the member lists of the configurations the command lines run on
CommandMemberLists == SeqsUpTo(Members, 1)

CliOps == {"list", "compare", "sync", "install"}

\* --verbose and --no-confirm as given on the command lines: neither, or both
CliFlags == {<<FALSE, FALSE>>, <<TRUE, TRUE>>}

Command(op, name, seeds, verbose, no_confirm) ==
    [op |-> op, name |-> name, seeds |-> seeds, verbose |-> verbose,
     no_confirm |-> no_confirm]

NoPlan ==
    [installed_but_not_specified |-> {}, specified_but_not_installed |-> {},
     packages |-> {}, packages_to_install |-> {}, packages_to_mark_explicit |-> {}]

NoCache == [explicit |-> None, installed |-> None, groups |-> None]

\* module level: state = {"verbose": False, "dry_run": False}; main() sets
\* all three keys before any of them is read
InitialState == [verbose |-> FALSE, dry_run |-> FALSE, no_confirm |-> FALSE]

----------------------------------------------------------------------------
(* A fresh process *)

FreshProcess ==
    /\ pc = "start"
    /\ state = InitialState
    /\ is_included = [b \in DOMAIN config |-> None]
    /\ include_runs = [b \in DOMAIN config |-> 0]
    /\ cache = NoCache
    /\ to_search = <<>>
    /\ bundle_names = {}
    /\ all_bundle_names = None
    /\ todo = {}
    /\ all_packages = {}
    /\ plan = NoPlan
    /\ executed = <<>>
    /\ reported = <<>>
    /\ table = <<>>
    /\ snapshot = [explicit |-> explicit, installed |-> installed]
    /\ result = "running"
    /\ err_name = None

\* the include commands test an environment that the runs do not change
InitReturncode ==
    /\ returncode \in [DOMAIN config -> ExitCodes]
    /\ \A b \in DOMAIN config : config[b].include = None => returncode[b] = 0

NoSystem ==
    /\ groups = NoGroups
    /\ explicit = {}
    /\ installed = {}

AnySystem ==
    /\ groups \in {NoGroups, GroupsD}
    /\ installed \in SUBSET Packages
    /\ explicit \in SUBSET installed

\* a direct call expand_bundles(seeds, config), on every configuration;
\* it reads neither the include strings nor the system
InitCall ==
    /\ config \in ConfigsOver(SeqsUpTo(Members, MaxMembers), {None})
    /\ NoSystem
    /\ \E seeds \in SUBSET BundleNames : cmd = Command("expand_bundles", A, seeds, FALSE, FALSE)

\* a direct call get_all_specified_packages(), on every configuration;
\* of the system it reads the groups
InitSpecified ==
    /\ config \in ConfigsOver(SeqsUpTo(Members, MaxMembers), {None, Some("test")})
    /\ groups \in {NoGroups, GroupsD}
    /\ explicit = {}
    /\ installed = {}
    /\ cmd = Command("get_all_specified_packages", A, {}, FALSE, FALSE)

\* list: reads no flag and nothing of the system
InitList ==
    /\ config \in ConfigsOver(CommandMemberLists, {None, Some("test")})
    /\ NoSystem
    /\ cmd = Command("list", A, {}, FALSE, FALSE)

\* compare: reads no flag
InitCompare ==
    /\ config \in ConfigsOver(CommandMemberLists, {None, Some("test")})
    /\ AnySystem
    /\ cmd = Command("compare", A, {}, FALSE, FALSE)

\* sync: every bundle has an include command, which succeeds or fails
InitSync ==
    /\ config \in ConfigsOver(CommandMemberLists, {Some("test")})
    /\ AnySystem
    /\ \E flags \in CliFlags : cmd = Command("sync", A, {}, flags[1], flags[2])

\* install <name>: reads no include string
InitInstall ==
    /\ config \in ConfigsOver(CommandMemberLists, {None})
    /\ AnySystem
    /\ \E name \in BundleNames, flags \in CliFlags :
          cmd = Command("install", name, {}, flags[1], flags[2])

Init ==
    /\ InitCall \/ InitSpecified \/ InitList \/ InitCompare \/ InitSync \/ InitInstall
    /\ InitReturncode
    /\ run = 1
    /\ prev = None
    /\ FreshProcess

----------------------------------------------------------------------------
(* Entry: the callback main() and the command handlers' first statements *)

Finish(r, name) ==
    /\ pc' = "done"
    /\ result' = r
    /\ err_name' = name

\* main(): the flags of the command line go into `state`; a run is given
\* --dry-run or not
Main ==
    /\ pc = "start"
    /\ cmd.op \in CliOps
    /\ \E d \in BOOLEAN :
          state' = [verbose |-> cmd.verbose, dry_run |-> d, no_confirm |-> cmd.no_confirm]
    /\ pc' = "command"
    /\ UNCHANGED <<envVars, sysVars, histVars, inclVars, expandVars, logVars, endVars,
                   cache, todo, all_packages, plan, table>>

\* list, compare and sync (the last two in get_all_specified_packages):
\* read_config(), then the comprehension over config.bundles.items()
SpecifiedEntry ==
    /\ \/ pc = "command" /\ cmd.op \in {"list", "compare", "sync"}
       \/ pc = "start" /\ cmd.op = "get_all_specified_packages"
    /\ todo' = DOMAIN config
    /\ pc' = "include"
    /\ UNCHANGED <<envVars, sysVars, histVars, inclVars, expandVars, logVars, endVars,
                   state, cache, all_packages, plan, table>>

\* install_bundle: the name must be a bundle of the config
install_bundle ==
    /\ pc = "command"
    /\ cmd.op = "install"
    /\ IF cmd.name \notin DOMAIN config
       THEN /\ Finish("Exit1", Some(cmd.name))
            /\ UNCHANGED <<to_search, bundle_names>>
       ELSE /\ to_search' = <<cmd.name>>
            /\ bundle_names' = {}
            /\ pc' = "expand"
            /\ UNCHANGED endVars
    /\ UNCHANGED <<envVars, sysVars, histVars, inclVars, logVars, all_bundle_names,
                   state, cache, todo, all_packages, plan, table>>

\* a direct call of expand_bundles: list(seeds) in the set's iteration order
CallExpand ==
    /\ pc = "start"
    /\ cmd.op = "expand_bundles"
    /\ to_search' \in Perms(cmd.seeds)
    /\ bundle_names' = {}
    /\ pc' = "expand"
    /\ UNCHANGED <<envVars, sysVars, histVars, inclVars, logVars, endVars,
                   all_bundle_names, state, cache, todo, all_packages, plan, table>>

----------------------------------------------------------------------------
(* Bundle.is_included, a cached_property *)

\* faulty variant: a plain property, evaluated on every read
is_included_never_cached(b) == FALSE

\* cached_property: the value is in the instance's __dict__ after the first read
is_included_cached(b) == is_included[b] # None

\* self.include is not None and subprocess.run(...).returncode == 0
is_included_value(bundle, rc) ==
    bundle.include # None /\ rc = 0

\* one read of bundle.is_included; the subprocess runs when the value is not
\* cached and the include string is set (`and` short-circuits)
ReadIsIncluded(b) ==
    IF is_included_cached(b)
    THEN UNCHANGED inclVars
    ELSE IF config[b].include = None
    THEN /\ is_included' = [is_included EXCEPT ![b] = Some(is_included_value(config[b], 0))]
         /\ UNCHANGED include_runs
    ELSE /\ is_included' = [is_included EXCEPT
                                ![b] = Some(is_included_value(config[b], returncode[b]))]
         /\ include_runs' = [include_runs EXCEPT ![b] = @ + 1]

\* {name for name, bundle in config.bundles.items() if bundle.is_included}: one bundle
IsIncluded ==
    /\ pc = "include"
    /\ \E b \in todo :
          /\ ReadIsIncluded(b)
          /\ todo' = todo \ {b}
    /\ UNCHANGED <<envVars, sysVars, histVars, expandVars, logVars, endVars, pc,
                   state, cache, all_packages, plan, table>>

\* the comprehension is complete: expand_bundles(specified_bundle_names, config)
SpecifiedBundleNames ==
    /\ pc = "include"
    /\ todo = {}
    /\ to_search' \in Perms({b \in DOMAIN config : is_included[b] = Some(TRUE)})
    /\ bundle_names' = {}
    /\ pc' = "expand"
    /\ UNCHANGED <<envVars, sysVars, histVars, inclVars, logVars, endVars,
                   all_bundle_names, state, cache, todo, all_packages, plan, table>>

----------------------------------------------------------------------------
(* expand_bundles *)

\* the stack never holds more than the seeds and every member of every
\* bundle; C1 shows that the guard on it in ExpandVisit never stops the loop
MaxSearch == Cardinality(BundleNames) * (MaxMembers + 1)

Top(s) == s[Len(s)]
Pop(s) == SubSeq(s, 1, Len(s) - 1)

\* faulty variant: no cycle guard
never_visited(bundle_name, names) == FALSE

\* faulty variant: unknown names are skipped like visited ones
visited_or_undefined(bundle_name, names) ==
    bundle_name \in names \/ bundle_name \notin DOMAIN config

\* if bundle_name in bundle_names: continue
already_visited(bundle_name, names) == bundle_name \in names

\* bundle_name in config.bundles
bundle_defined(bundle_name, cfg) == bundle_name \in DOMAIN cfg

\* faulty variant: the loop over the members stops at the first bundle
RECURSIVE first_child_bundle(_)
first_child_bundle(members) ==
    IF members = <<>> THEN <<>>
    ELSE IF identifier_type(Head(members)) = "bundle"
         THEN <<Slice(Head(members), 1)>>
         ELSE first_child_bundle(Tail(members))

\* for member in bundle.members: if it is a bundle, append member[1:]
RECURSIVE child_bundles(_)
child_bundles(members) ==
    IF members = <<>> THEN <<>>
    ELSE IF identifier_type(Head(members)) = "bundle"
         THEN <<Slice(Head(members), 1)>> \o child_bundles(Tail(members))
         ELSE child_bundles(Tail(members))

ExpandUnchanged ==
    UNCHANGED <<envVars, sysVars, histVars, inclVars, logVars, state, cache, plan, table>>

ExpandSkip ==
    /\ pc = "expand"
    /\ to_search # <<>>
    /\ already_visited(Top(to_search), bundle_names)
    /\ to_search' = Pop(to_search)
    /\ UNCHANGED <<pc, bundle_names, all_bundle_names, todo, all_packages, endVars>>
    /\ ExpandUnchanged

ExpandFail ==
    /\ pc = "expand"
    /\ to_search # <<>>
    /\ ~already_visited(Top(to_search), bundle_names)
    /\ ~bundle_defined(Top(to_search), config)
    /\ to_search' = Pop(to_search)
    /\ Finish("Exit1", Some(Top(to_search)))
    /\ UNCHANGED <<bundle_names, all_bundle_names, todo, all_packages>>
    /\ ExpandUnchanged

ExpandVisit ==
    /\ pc = "expand"
    /\ to_search # <<>>
    /\ ~already_visited(Top(to_search), bundle_names)
    /\ bundle_defined(Top(to_search), config)
    /\ bundle_names' = bundle_names \cup {Top(to_search)}
    /\ to_search' = Pop(to_search) \o child_bundles(config[Top(to_search)].members)
    /\ Len(to_search') <= MaxSearch
    /\ UNCHANGED <<pc, all_bundle_names, todo, all_packages, endVars>>
    /\ ExpandUnchanged

\* return bundle_names, and the caller's next statement
ExpandReturn ==
    /\ pc = "expand"
    /\ to_search = <<>>
    /\ all_bundle_names' = Some(bundle_names)
    /\ CASE cmd.op = "expand_bundles" ->
              /\ Finish("Return", None)
              /\ UNCHANGED <<todo, all_packages>>
         [] cmd.op = "list" ->
              /\ pc' = "table"
              /\ todo' = DOMAIN config
              /\ UNCHANGED <<all_packages, endVars>>
         [] OTHER ->
              /\ pc' = "packages"
              /\ todo' = bundle_names
              /\ all_packages' = {}
              /\ UNCHANGED endVars
    /\ UNCHANGED <<to_search, bundle_names>>
    /\ ExpandUnchanged

----------------------------------------------------------------------------
(* The lru_cache(1) pacman queries *)

\* get_explicitly_installed_packages(): the first call asks the system
get_explicitly_installed_packages ==
    IF cache.explicit = None THEN explicit ELSE cache.explicit[1]

\* get_installed_packages()
get_installed_packages ==
    IF cache.installed = None THEN installed ELSE cache.installed[1]

\* pacman_groups()
pacman_groups ==
    IF cache.groups = None THEN groups ELSE cache.groups[1]

----------------------------------------------------------------------------
(* get_packages *)

NoError == "none"

\* line 170 builds typer.Exit(1) and drops it; line 171 then indexes the
\* dict with the missing key
unknown_group_raises == "KeyError"

\* faulty variant: every member taken for a package
members_as_packages(members, grp) ==
    [raised |-> NoError, printed |-> None,
     packages |-> {members[i] : i \in DOMAIN members}]

\* the packages of a bundle's members: [raised, printed, packages]
RECURSIVE get_packages(_, _)
get_packages(members, grp) ==
    IF members = <<>>
    THEN [raised |-> NoError, printed |-> None, packages |-> {}]
    ELSE LET member == Head(members)
             kind == identifier_type(member)
             group_name == Slice(member, 2)
             rest == get_packages(Tail(members), grp)
         IN  CASE kind = "group" ->
                    IF group_name \notin DOMAIN grp
                    THEN [raised |-> unknown_group_raises,
                          printed |-> Some(group_name), packages |-> {}]
                    ELSE [rest EXCEPT !.packages = grp[group_name] \cup @]
               [] kind = "package" ->
                    [rest EXCEPT !.packages = {member} \cup @]
               [] OTHER -> rest

HasGroupMember(members) ==
    \E i \in DOMAIN members : identifier_type(members[i]) = "group"

\* one bundle of the comprehension {package for bundle_name in all_bundle_names
\* for package in get_packages(config.bundles[bundle_name])}
GetPackages ==
    /\ pc = "packages"
    /\ \E b \in todo :
          LET got == get_packages(config[b].members, pacman_groups)
          IN  /\ cache' = IF HasGroupMember(config[b].members)
                          THEN [cache EXCEPT !.groups = Some(pacman_groups)]
                          ELSE cache
              /\ IF got.raised # NoError
                 THEN /\ Finish(got.raised, got.printed)
                      /\ UNCHANGED <<todo, all_packages>>
                 ELSE /\ all_packages' = all_packages \cup got.packages
                      /\ todo' = todo \ {b}
                      /\ UNCHANGED <<pc, endVars>>
    /\ UNCHANGED <<envVars, sysVars, histVars, inclVars, expandVars, logVars, state,
                   plan, table>>

----------------------------------------------------------------------------
(* list *)

RowMark(b) ==
    IF is_included'[b] = Some(TRUE) THEN "direct"
    ELSE IF b \in all_bundle_names[1] THEN "transitive"
    ELSE "not included"

\* table.add_row(...) for one bundle: reads bundle.is_included again
TableRow ==
    /\ pc = "table"
    /\ \E b \in todo :
          /\ ReadIsIncluded(b)
          /\ table' = Append(table, <<b, RowMark(b)>>)
          /\ todo' = todo \ {b}
    /\ UNCHANGED <<envVars, sysVars, histVars, expandVars, logVars, endVars, pc,
                   state, cache, all_packages, plan>>

ListDone ==
    /\ pc = "table"
    /\ todo = {}
    /\ Finish("Return", None)
    /\ UNCHANGED <<envVars, sysVars, histVars, inclVars, expandVars, logVars, state,
                   cache, todo, all_packages, plan, table>>

----------------------------------------------------------------------------
(* compare and sync: the two differences *)

\* get_all_specified_packages called directly: return all_packages
get_all_specified_packages ==
    /\ pc = "packages"
    /\ todo = {}
    /\ cmd.op = "get_all_specified_packages"
    /\ Finish("Return", None)
    /\ UNCHANGED <<envVars, sysVars, histVars, inclVars, expandVars, logVars, state,
                   cache, todo, all_packages, plan, table>>

DifferencePlan(desired, installed_packages) ==
    [NoPlan EXCEPT !.installed_but_not_specified = installed_packages \ desired,
                   !.specified_but_not_installed = desired \ installed_packages]

\* faulty variant: only one difference is tested
differs_one_sided(p) == p.installed_but_not_specified # {}

\* if installed_but_not_specified or specified_but_not_installed
differs(p) ==
    p.installed_but_not_specified # {} \/ p.specified_but_not_installed # {}

compare_packages_difference ==
    /\ pc = "packages"
    /\ todo = {}
    /\ cmd.op = "compare"
    /\ cache' = [cache EXCEPT !.explicit = Some(get_explicitly_installed_packages)]
    /\ plan' = DifferencePlan(all_packages, get_explicitly_installed_packages)
    /\ Finish(IF differs(plan') THEN "Exit10" ELSE "Return", None)
    /\ UNCHANGED <<envVars, sysVars, histVars, inclVars, expandVars, logVars, state,
                   todo, all_packages, table>>

\* sync_packages up to confirm_action()
sync_packages ==
    /\ pc = "packages"
    /\ todo = {}
    /\ cmd.op = "sync"
    /\ cache' = [cache EXCEPT !.explicit = Some(get_explicitly_installed_packages)]
    /\ plan' = DifferencePlan(all_packages, get_explicitly_installed_packages)
    /\ IF differs(plan')
       THEN pc' = "confirm" /\ UNCHANGED endVars
       ELSE Finish("Exit0", None)
    /\ UNCHANGED <<envVars, sysVars, histVars, inclVars, expandVars, logVars, state,
                   todo, all_packages, table>>

\* install_bundle after the comprehension, up to confirm_action()
install_plan ==
    /\ pc = "packages"
    /\ todo = {}
    /\ cmd.op = "install"
    /\ cache' = [cache EXCEPT !.explicit = Some(get_explicitly_installed_packages)]
    /\ plan' = [NoPlan EXCEPT !.packages = all_packages]
    /\ IF all_packages \ get_explicitly_installed_packages = {}
       THEN Finish("Exit0", None)
       ELSE pc' = "confirm" /\ UNCHANGED endVars
    /\ UNCHANGED <<envVars, sysVars, histVars, inclVars, expandVars, logVars, state,
                   todo, all_packages, table>>

\* confirm_action(): typer.confirm(prompt, abort=True) unless --no-confirm
confirm_action ==
    /\ pc = "confirm"
    /\ \E answer \in BOOLEAN :
          /\ state.no_confirm => answer
          /\ IF ~answer
             THEN Finish("Abort", None) /\ UNCHANGED plan
             ELSE /\ UNCHANGED endVars
                  /\ IF cmd.op = "sync"
                     THEN /\ plan' = [plan EXCEPT !.packages = plan.specified_but_not_installed]
                          /\ pc' = IF plan.installed_but_not_specified # {}
                                   THEN "mark_as_dependency"
                                   ELSE "install_or_mark_explicit"
                     ELSE /\ pc' = "install_or_mark_explicit"
                          /\ UNCHANGED plan
    /\ UNCHANGED <<envVars, sysVars, histVars, inclVars, expandVars, logVars, state,
                   cache, todo, all_packages, table>>

----------------------------------------------------------------------------
(* run_action and the package manager behind it *)

Cmd(op, packages) == [op |-> op, packages |-> packages]

\* what the package manager does to the system on a command that succeeds:
\* install and -D --asexplicit leave the packages explicit, -D --asdeps not
pacman_effect(c) ==
    CASE c.op = "install" ->
           [explicit |-> explicit \cup c.packages, installed |-> installed \cup c.packages]
      [] c.op = "asexplicit" ->
           [explicit |-> explicit \cup (c.packages \cap installed), installed |-> installed]
      [] c.op = "asdeps" ->
           [explicit |-> explicit \ c.packages, installed |-> installed]

\* faulty variant: --dry-run ignored
runs_subprocess_always(st) == TRUE

\* if not state["dry_run"]: subprocess.run(args, check=True)
runs_subprocess(st) == ~st.dry_run

\* if state["dry_run"] or state["verbose"]: print("Running command: ...")
prints_command(st) == st.dry_run \/ st.verbose

Continue(next) ==
    IF next = "done" THEN Finish("Return", None)
    ELSE pc' = next /\ UNCHANGED endVars

\* run_action(*args), then the statement at `next`; check=True raises when the
\* command fails
run_action(c, next) ==
    /\ reported' = IF prints_command(state) THEN Append(reported, c) ELSE reported
    /\ IF runs_subprocess(state)
       THEN /\ executed' = Append(executed, c)
            /\ \E rc \in {0, 1} :
                  IF rc = 0
                  THEN /\ explicit' = pacman_effect(c).explicit
                       /\ installed' = pacman_effect(c).installed
                       /\ Continue(next)
                  ELSE /\ UNCHANGED sysVars
                       /\ Finish("CalledProcessError", None)
       ELSE /\ UNCHANGED <<executed, sysVars>>
            /\ Continue(next)

\* mark_as_dependency(installed_but_not_specified), then the reminder
mark_as_dependency ==
    /\ pc = "mark_as_dependency"
    /\ run_action(Cmd("asdeps", plan.installed_but_not_specified),
                  IF plan.specified_but_not_installed # {}
                  THEN "install_or_mark_explicit" ELSE "done")
    /\ UNCHANGED <<envVars, histVars, inclVars, expandVars, state, cache, todo,
                   all_packages, plan, table>>

packages_to_install_or_mark_explicit(packages) ==
    packages \ get_explicitly_installed_packages

\* faulty variant: installed packages are installed again
packages_to_install_anyway(packages) ==
    packages_to_install_or_mark_explicit(packages)

packages_to_install(packages) ==
    packages_to_install_or_mark_explicit(packages) \ get_installed_packages

\* faulty variant: nothing is promoted
packages_to_mark_explicit_never(packages) == {}

packages_to_mark_explicit(packages) ==
    packages_to_install_or_mark_explicit(packages) \cap get_installed_packages

\* install_or_mark_explicit(packages) up to and including the install command
install_or_mark_explicit ==
    /\ pc = "install_or_mark_explicit"
    /\ cache' = [cache EXCEPT !.explicit = Some(get_explicitly_installed_packages),
                              !.installed = Some(get_installed_packages)]
    /\ plan' = [plan EXCEPT !.packages_to_install = packages_to_install(plan.packages),
                            !.packages_to_mark_explicit =
                                packages_to_mark_explicit(plan.packages)]
    /\ LET next == IF plan'.packages_to_mark_explicit # {}
                   THEN "mark_explicit" ELSE "done"
       IN  IF plan'.packages_to_install # {}
           THEN run_action(Cmd("install", plan'.packages_to_install), next)
           ELSE /\ Continue(next)
                /\ UNCHANGED <<sysVars, logVars>>
    /\ UNCHANGED <<envVars, histVars, inclVars, expandVars, state, todo, all_packages,
                   table>>

\* the second command of install_or_mark_explicit
mark_explicit ==
    /\ pc = "mark_explicit"
    /\ run_action(Cmd("asexplicit", plan.packages_to_mark_explicit), "done")
    /\ UNCHANGED <<envVars, histVars, inclVars, expandVars, state, cache, todo,
                   all_packages, plan, table>>

----------------------------------------------------------------------------
(* The next invocation of the same command line, in a new process *)

RunRecord ==
    [state |-> state, result |-> result, is_included |-> is_included,
     snapshot |-> snapshot, all_packages |-> all_packages,
     reported |-> reported, executed |-> executed]

\* (of the commands that act on the system)
NextRun ==
    /\ pc = "done"
    /\ cmd.op \in {"sync", "install"}
    /\ run < MaxRuns
    /\ run' = run + 1
    /\ prev' = Some(RunRecord)
    /\ snapshot' = [explicit |-> explicit, installed |-> installed]
    /\ pc' = "start"
    /\ state' = InitialState
    /\ is_included' = [b \in DOMAIN config |-> None]
    /\ include_runs' = [b \in DOMAIN config |-> 0]
    /\ cache' = NoCache
    /\ to_search' = <<>>
    /\ bundle_names' = {}
    /\ all_bundle_names' = None
    /\ todo' = {}
    /\ all_packages' = {}
    /\ plan' = NoPlan
    /\ executed' = <<>>
    /\ reported' = <<>>
    /\ table' = <<>>
    /\ result' = "running"
    /\ err_name' = None
    /\ UNCHANGED <<envVars, sysVars>>

----------------------------------------------------------------------------
(* Specifications *)

Next ==
    \/ Main
    \/ SpecifiedEntry
    \/ install_bundle
    \/ CallExpand
    \/ IsIncluded
    \/ SpecifiedBundleNames
    \/ ExpandSkip
    \/ ExpandFail
    \/ ExpandVisit
    \/ ExpandReturn
    \/ GetPackages
    \/ TableRow
    \/ ListDone
    \/ get_all_specified_packages
    \/ compare_packages_difference
    \/ sync_packages
    \/ install_plan
    \/ confirm_action
    \/ mark_as_dependency
    \/ install_or_mark_explicit
    \/ mark_explicit
    \/ NextRun

Spec == Init /\ [][Next]_vars

\* expand_bundles alone, called directly; a running loop takes its next step
InitExpand ==
    /\ InitCall
    /\ InitReturncode
    /\ run = 1
    /\ prev = None
    /\ FreshProcess

NextExpand ==
    \/ CallExpand
    \/ ExpandSkip
    \/ ExpandFail
    \/ ExpandVisit
    \/ ExpandReturn

SpecExpand == InitExpand /\ [][NextExpand]_vars /\ WF_vars(NextExpand)

----------------------------------------------------------------------------
(* What the claims speak of, stated without the program's own steps *)

Range(f) == {f[i] : i \in DOMAIN f}

IsBundleRef(m) == m[1] = "#"
IsGroupRef(m) == Len(m) >= 2 /\ m[1] = "g" /\ m[2] = "#"

\* the bundles a bundle names with '#'
Refs(b) == {Tail(m) : m \in {x \in Range(config[b].members) : IsBundleRef(x)}}

\* the names reachable from S through '#' members, S included
RECURSIVE Closure(_)
Closure(S) ==
    LET more == S \cup UNION {Refs(b) : b \in S \cap DOMAIN config}
    IN  IF more = S THEN S ELSE Closure(more)

\* the bundles whose inclusion predicate succeeds
Included == {b \in DOMAIN config : config[b].include # None /\ returncode[b] = 0}

\* the seed set of the run's call of expand_bundles
Seeds ==
    CASE cmd.op = "expand_bundles" -> cmd.seeds
      [] cmd.op = "install" -> {cmd.name}
      [] OTHER -> Included

Undefined(S) == S \ DOMAIN config

GroupRefs(b) == {Tail(Tail(m)) : m \in {x \in Range(config[b].members) : IsGroupRef(x)}}

PlainPackages(b) ==
    {m \in Range(config[b].members) : ~IsBundleRef(m) /\ ~IsGroupRef(m)}

\* the packages a bundle contributes; an unlisted group has none to give
PackagesOf(b) ==
    PlainPackages(b) \cup UNION {groups[g] : g \in GroupRefs(b) \cap DOMAIN groups}

Desired == UNION {PackagesOf(b) : b \in Closure(Included)}

IsPrefix(s, t) == Len(s) <= Len(t) /\ SubSeq(t, 1, Len(s)) = s

IfAny(op, packages) == IF packages = {} THEN <<>> ELSE <<Cmd(op, packages)>>

\* the reconcile plan as commands, in the order demote, install, promote
PlanCommands(desired, actual_explicit, actual_all) ==
    IfAny("asdeps", actual_explicit \ desired)
    \o IfAny("install", (desired \ actual_explicit) \ actual_all)
    \o IfAny("asexplicit", (desired \ actual_explicit) \cap actual_all)

Calls(ops) == cmd.op \in ops

AfterExpansion == pc \notin {"start", "command", "include", "expand"}

\* the handler holds the complete desired set
AfterMaterialize ==
    \/ pc \in {"confirm", "mark_as_dependency", "install_or_mark_explicit", "mark_explicit"}
    \/ pc = "done" /\ result \in {"Return", "Exit0", "Exit10", "Abort", "CalledProcessError"}

----------------------------------------------------------------------------
(* Claims *)

\* C1: expand_bundles terminates on every config and seed set (the work-list
\* empties or the call fails), cycles and self-references included, and when
\* it returns the result holds every seed name.
C1_ExpandTerminates ==
    /\ (pc = "expand") ~> (pc = "done")
    /\ [](pc = "done" /\ result = "Return" => cmd.seeds \subseteq all_bundle_names[1])

C1_Witness ==
    /\ pc = "done"
    /\ result = "Return"
    /\ cmd.seeds = {A}
    /\ B \in DOMAIN config
    /\ A \in Refs(A) /\ B \in Refs(A) /\ A \in Refs(B)
    /\ all_bundle_names = Some({A, B})

\* C2: when every name reachable from the seeds is defined, expand_bundles
\* returns exactly the names reachable from the seeds through '#' members,
\* whatever the order of the work-list; and it returns only then.
C2_ExpandExact ==
    /\ all_bundle_names # None => all_bundle_names[1] = Closure(Seeds)
    /\ AfterExpansion /\ Undefined(Closure(Seeds)) = {} => all_bundle_names # None

C2_Witness ==
    /\ Calls({"get_all_specified_packages"})
    /\ Included = {A}
    /\ B \in DOMAIN config
    /\ B \in Refs(A) /\ A \in Refs(B)
    /\ Len(config[A].members) = 2
    /\ all_bundle_names = Some({A, B})

\* C3: if a name among the seeds or reachable from them is not a key of
\* config.bundles, the call ends in Exit(1) naming such a name, no set is
\* returned and no mutating command is issued.
C3_UndefinedIsFatal ==
    AfterExpansion /\ Undefined(Closure(Seeds)) # {} =>
        /\ pc = "done"
        /\ result = "Exit1"
        /\ err_name \in {Some(n) : n \in Undefined(Closure(Seeds))}
        /\ all_bundle_names = None
        /\ executed = <<>>
        /\ reported = <<>>

C3_Witness ==
    /\ Calls({"sync"})
    /\ pc = "done"
    /\ result = "Exit1"
    /\ err_name = Some(B)
    /\ bundle_names = {A}
    /\ explicit # {}

\* C4: a 'g#' member naming a group the package manager does not list ends
\* the operation like an unknown bundle does, in Exit(1) naming the group,
\* with no package list and no command issued.
C4_UnknownGroupIsExit1 ==
    /\ Calls({"compare", "sync", "install", "get_all_specified_packages"})
    /\ pc = "done"
    /\ all_bundle_names # None
    /\ \E b \in all_bundle_names[1] : GroupRefs(b) \ DOMAIN groups # {}
    => /\ result = "Exit1"
       /\ err_name \in {Some(g) : g \in UNION {GroupRefs(b) : b \in all_bundle_names[1]}}
       /\ executed = <<>>

\* C5: the desired set of get_all_specified_packages is the union, over the
\* closure of the bundles whose predicate succeeded, of the plain package
\* members and of the packages of the 'g#' groups; '#' members and bundles
\* outside the closure add nothing.
C5_DesiredExact ==
    Calls({"compare", "sync", "get_all_specified_packages"}) /\ AfterMaterialize
        => all_packages = Desired

C5_Witness ==
    /\ Calls({"get_all_specified_packages"})
    /\ pc = "done"
    /\ result = "Return"
    /\ Included = {A}
    /\ B \in DOMAIN config
    /\ config[A].members = <<G, <<"#", "b">>>>
    /\ config[B].members = <<<<"g", "#", "d">>, <<"#", "a">>>>
    /\ all_packages = {G, Q}

\* C6: a confirmed sync issues the reconcile plan and nothing else, in the
\* order demote (actual_explicit - desired), install ((desired -
\* actual_explicit) - actual_all), promote ((desired - actual_explicit) &
\* actual_all), skipping empty sets; installed and promoted sets are
\* disjoint; no command removes a package. (A command that fails ends the
\* run, so what is issued is a prefix of the plan, the whole of it when the
\* run returns.)
C6_SyncAppliesPlan ==
    Calls({"sync"}) /\ ~state.dry_run =>
        LET expected == PlanCommands(all_packages, snapshot.explicit, snapshot.installed)
        IN  /\ executed # <<>> => AfterMaterialize /\ pc # "confirm"
            /\ AfterMaterialize =>
                  /\ IsPrefix(executed, expected)
                  /\ pc = "done" /\ result = "Return" => executed = expected
                  /\ pc = "done" /\ result = "Exit0" <=> pc = "done" /\ expected = <<>>
                  /\ plan.packages_to_install \cap plan.packages_to_mark_explicit = {}
            /\ \A i \in DOMAIN executed : executed[i].op \in {"asdeps", "install", "asexplicit"}

C6_Witness ==
    /\ Calls({"sync"})
    /\ ~state.dry_run
    /\ pc = "done"
    /\ result = "Return"
    /\ Len(executed) = 3
    /\ executed[1].op = "asdeps" /\ executed[2].op = "install"
    /\ executed[3].op = "asexplicit"

\* C7: after a confirmed sync without --dry-run whose commands succeeded, the
\* next sync on the same config, predicates and system finds nothing to do
\* and issues no command.
C7_SyncIdempotent ==
    /\ Calls({"sync"})
    /\ prev # None
    /\ ~prev[1].state.dry_run
    /\ prev[1].result = "Return"
    /\ pc \notin {"start", "command", "include", "expand", "packages"}
    => /\ pc = "done"
       /\ result = "Exit0"
       /\ executed = <<>>
       /\ reported = <<>>

C7_Witness ==
    /\ Calls({"sync"})
    /\ prev # None
    /\ ~prev[1].state.dry_run
    /\ prev[1].result = "Return"
    /\ Len(prev[1].executed) = 3
    /\ ~state.dry_run
    /\ pc = "done"
    /\ result = "Exit0"

\* C8: compare exits with 10 exactly when a plan category is non-empty, that
\* is when desired differs from the explicitly installed set, and returns
\* (status 0) otherwise; it issues no mutating command.
C8_CompareExit ==
    Calls({"compare"}) =>
        /\ executed = <<>> /\ reported = <<>>
        /\ explicit = snapshot.explicit /\ installed = snapshot.installed
        /\ pc = "done" /\ result \notin {"Exit1", "KeyError"} =>
              /\ result \in {"Exit10", "Return"}
              /\ result = "Exit10" <=> Desired # snapshot.explicit
              /\ result = "Exit10" <=>
                    PlanCommands(Desired, snapshot.explicit, snapshot.installed) # <<>>

C8_Witness ==
    /\ Calls({"compare"})
    /\ pc = "done"
    /\ result = "Exit10"
    /\ snapshot.explicit = {}
    /\ Desired = {Q}

\* C9: in one run a bundle's include command is executed at most once however
\* often is_included is read, and only before the closure is expanded; a
\* bundle without include string is not included and runs no command; a
\* non-zero exit gives "not included" and no error.
C9_IncludeOnce ==
    /\ [](\A b \in DOMAIN config :
            /\ include_runs[b] <= 1
            /\ config[b].include = None => include_runs[b] = 0
            /\ is_included[b] # None => is_included[b] = Some(b \in Included)
            /\ Calls({"list", "compare", "sync", "get_all_specified_packages"})
                  /\ (AfterExpansion \/ pc = "expand")
               => is_included[b] # None /\ (config[b].include # None => include_runs[b] = 1))
    /\ [](pc = "include" => result = "running")
    /\ [][(\E b \in DOMAIN config : include_runs'[b] > include_runs[b])
            => pc = "include" /\ pc' = "include"]_vars

C9_Witness ==
    /\ Calls({"list"})
    /\ pc = "done"
    /\ result = "Return"
    /\ config[A].include # None /\ returncode[A] # 0
    /\ include_runs[A] = 1
    /\ \E i \in DOMAIN table : table[i] = <<A, "transitive">>

\* C10: with --dry-run no mutating command is executed by sync or install and
\* the system stays as found; the commands a dry run reports are those the
\* same command line without --dry-run then executes on that system.
C10_DryRun ==
    /\ state.dry_run =>
          /\ executed = <<>>
          /\ explicit = snapshot.explicit /\ installed = snapshot.installed
    /\ /\ prev # None
       /\ prev[1].state.dry_run /\ prev[1].result \in {"Return", "Exit0"}
       /\ ~state.dry_run /\ pc = "done" /\ result \in {"Return", "Exit0"}
       => /\ snapshot = prev[1].snapshot
          /\ all_packages = prev[1].all_packages
          /\ result = prev[1].result
          /\ executed = prev[1].reported

C10_Witness ==
    /\ Calls({"sync"})
    /\ prev # None
    /\ prev[1].state.dry_run /\ prev[1].result = "Return"
    /\ Len(prev[1].reported) = 3
    /\ ~state.dry_run
    /\ pc = "done"
    /\ result = "Return"
    /\ Len(executed) = 3

====
